---- MODULE Spec2Model ----
(***************************************************************************)
(* Model of infer_google_vision_ocr_process.py: the task object            *)
(* InferGoogleVisionOcr, its parameter object and its run() method, taken  *)
(* statement by statement.  The remote service and the host framework are  *)
(* the environment: the service answers text_detection with any response   *)
(* of a bounded set (or raises), the constructor of the client succeeds or *)
(* raises, and the host changes the parameter between invocations.         *)
(***************************************************************************)
EXTENDS Integers, Sequences, FiniteSets, TLC

VARIABLES
    pc,            \* position of run(): idle, forward, client, construct, encode,
                   \* infer, check, dict, scores, loop, done, raised
    runs,          \* invocations of run() started so far
    active,        \* begin_task_run() called and end_task_run() not yet
    cred,          \* param.google_application_credentials
    environ,       \* os.environ['GOOGLE_APPLICATION_CREDENTIALS']
    client,        \* self.client: NoClient or the handle constructed
    handles,       \* ImageAnnotatorClient() constructions that returned a handle
    output0,       \* output slot 0: the forwarded image
    older,         \* records slot 1 already held when this invocation began
    text_output,   \* records add_text_field put in slot 1 during this invocation
    output_dict,   \* output slot 2: output_dict.data, a set of <<key, value>>
    response,      \* local `response` of run()
    scores,        \* local `scores` of run()
    i,             \* loop index of `for i, text in enumerate(texts[1:])`
    exc,           \* the exception run() ended with
    wrote,         \* output slots written by this invocation
    calls,         \* text_detection calls made by this invocation
    env_written    \* this invocation assigned os.environ[...]

vars == <<pc, runs, active, cred, environ, client, handles, output0, older,
          text_output, output_dict, response, scores, i, exc, wrote, calls,
          env_written>>

----------------------------------------------------------------------------
(* Bounds of the model. *)

MaxRuns == 2
MaxAnn == 2
MaxWords == 3
MaxVerts == 4

----------------------------------------------------------------------------
(* Values. *)

NoClient == 0
Unset == "<unset>"
NoImage == "<none>"
SrcImage == "src_image"
NoResponse == [none |-> TRUE]
NoExc == [type |-> "none", line |-> 0, text |-> ""]
DetectedText == "Detected text"
Color == <<255, 0, 0>>
ErrorSuffix == "\nFor more info on error messages, check: https://cloud.google.com/apis/design/errors"

CredPaths == {"/k1.json", "/k2.json"}
DefaultCred == ""
ErrorMessages == {"", "quota"}
Texts == {"ab", "cd"}
Confs == {50, 90}
Xs == {0, 5, 10}
Ys == {0, 5}

----------------------------------------------------------------------------
(* Pure helpers of run(). *)

RECURSIVE MinOf(_)
MinOf(s) == IF Len(s) = 1 THEN s[1]
            ELSE LET m == MinOf(Tail(s)) IN IF s[1] < m THEN s[1] ELSE m

RECURSIVE MaxOf(_)
MaxOf(s) == IF Len(s) = 1 THEN s[1]
            ELSE LET m == MaxOf(Tail(s)) IN IF s[1] > m THEN s[1] ELSE m

XCoords(vertices) == [k \in 1..Len(vertices) |-> vertices[k][1]]
YCoords(vertices) == [k \in 1..Len(vertices) |-> vertices[k][2]]

(* Mutant: the first vertex taken for the top-left corner. *)
BoundingBox_FirstVertex(vertices) ==
    LET x_coords == XCoords(vertices)
        y_coords == YCoords(vertices)
        x_box == vertices[1][1]
        y_box == vertices[1][2]
    IN [x |-> x_box, y |-> y_box,
        w |-> MaxOf(x_coords) - x_box, h |-> MaxOf(y_coords) - y_box]

BoundingBox(vertices) ==
    LET x_coords == XCoords(vertices)
        y_coords == YCoords(vertices)
        x_box == MinOf(x_coords)
        y_box == MinOf(y_coords)
    IN [x |-> x_box, y |-> y_box,
        w |-> MaxOf(x_coords) - x_box, h |-> MaxOf(y_coords) - y_box]

(* Mutant: only the first word of a paragraph is scored. *)
WordScores_First(words) ==
    IF words = <<>> THEN <<>> ELSE <<words[1].confidence>>

RECURSIVE WordScores(_)
WordScores(words) ==
    IF words = <<>> THEN <<>>
    ELSE <<words[1].confidence>> \o WordScores(Tail(words))

RECURSIVE ParagraphScores(_)
ParagraphScores(paragraphs) ==
    IF paragraphs = <<>> THEN <<>>
    ELSE WordScores(paragraphs[1].words) \o ParagraphScores(Tail(paragraphs))

RECURSIVE BlockScores(_)
BlockScores(blocks) ==
    IF blocks = <<>> THEN <<>>
    ELSE ParagraphScores(blocks[1].paragraphs) \o BlockScores(Tail(blocks))

(* Mutant: the scores in the reverse of the traversal order. *)
FlattenScores_Reversed(page) ==
    LET f == BlockScores(page.blocks)
    IN [k \in 1..Len(f) |-> f[Len(f) + 1 - k]]

FlattenScores(page) == BlockScores(page.blocks)

(* Mutant: the exception text without the service's message. *)
FormatError_NoMessage(message) == ErrorSuffix

FormatError(message) == message \o ErrorSuffix

(* Mutant: the loop runs over every annotation, the aggregate included. *)
Texts1_All(texts) == texts

(* texts[1:] *)
Texts1(texts) == SubSeq(texts, 2, Len(texts))

TextField(id, word, conf, box) ==
    [id |-> id, label |-> "", text |-> word, confidence |-> conf,
     box_x |-> box.x, box_y |-> box.y, box_width |-> box.w, box_height |-> box.h,
     color |-> Color]

----------------------------------------------------------------------------
(* The responses the remote service can give.  A response carries          *)
(* error.message, text_annotations (description, bounding_poly.vertices)   *)
(* and full_text_annotation.pages (blocks, paragraphs, words, confidence). *)

SeqsUpTo(S, n) == UNION {[1..k -> S] : k \in 0..n}

Breaks == {"word", "para", "block"}

Word(c) == [confidence |-> c]

(* The blocks holding the first k words of s, where g[j] tells whether word *)
(* j+1 continues the paragraph of word j, opens a paragraph or opens a block. *)
RECURSIVE BuildBlocks(_, _, _)
BuildBlocks(s, g, k) ==
    IF k = 0 THEN <<>>
    ELSE LET prev == BuildBlocks(s, g, k - 1)
             w == Word(s[k])
         IN IF k = 1 \/ g[k - 1] = "block"
            THEN Append(prev, [paragraphs |-> <<[words |-> <<w>>]>>])
            ELSE LET nb == Len(prev)
                     np == Len(prev[nb].paragraphs)
                 IN IF g[k - 1] = "para"
                    THEN [prev EXCEPT ![nb].paragraphs = Append(@, [words |-> <<w>>])]
                    ELSE [prev EXCEPT ![nb].paragraphs[np].words = Append(@, w)]

(* The same words with an empty block in front and an empty paragraph closing *)
(* every block. *)
Padded(blocks) ==
    <<[paragraphs |-> <<>>]>> \o
    [b \in 1..Len(blocks) |->
        [paragraphs |-> blocks[b].paragraphs \o <<[words |-> <<>>]>>]]

BlockLists(n) ==
    UNION {{BuildBlocks(s, g, Len(s)) : g \in [1..(Len(s) - 1) -> Breaks]} :
           s \in SeqsUpTo(Confs, n)}

PlainPages(n) ==
    {[blocks |-> BuildBlocks(s, [j \in 1..(Len(s) - 1) |-> "word"], Len(s))] :
     s \in SeqsUpTo(Confs, n)}

NestedPages(n) ==
    {[blocks |-> B] : B \in BlockLists(n)} \cup
    {[blocks |-> Padded(B)] : B \in BlockLists(n)}

Quad == <<<<0, 0>>, <<10, 0>>, <<10, 5>>, <<0, 5>>>>

Annotation(d, v) == [description |-> d, vertices |-> v]

(* No annotation at all, or the aggregate annotation and up to n individual *)
(* ones with descriptions of D and polygons of P. *)
AnnotationLists(D, P, n) ==
    {<<>>} \cup
    {<<Annotation(a, Quad)>> \o ind :
     a \in D, ind \in SeqsUpTo({Annotation(d, v) : d \in D, v \in P}, n)}

(* Invocation life cycle: any error field, any texts, polygons present or *)
(* empty, scores in one paragraph. *)
Responses ==
    [error : ErrorMessages,
     text_annotations : AnnotationLists(Texts, {<<>>, Quad}, MaxAnn),
     pages : {<<>>} \cup {<<p>> : p \in PlainPages(MaxWords)}]

(* Score pairing: every nesting of up to MaxWords words, one or two pages. *)
ScoreResponses ==
    [error : ErrorMessages,
     text_annotations : AnnotationLists({"ab"}, {Quad}, MaxAnn),
     pages : {<<>>} \cup {<<p>> : p \in NestedPages(MaxWords)}
             \cup {<<p, q>> : p \in NestedPages(MaxWords),
                              q \in PlainPages(1) \ PlainPages(0)}]

(* Boxes: one individual annotation with any polygon of up to MaxVerts vertices. *)
BoxResponses ==
    [error : {""},
     text_annotations :
        {<<Annotation("ab", Quad), Annotation("cd", v)>> :
         v \in SeqsUpTo(Xs \X Ys, MaxVerts)},
     pages : {<<p>> : p \in PlainPages(1)}]

----------------------------------------------------------------------------
(* Construction: InferGoogleVisionOcr.__init__ and the parameter object.   *)

Init ==
    /\ pc = "idle"
    /\ runs = 0
    /\ active = FALSE
    /\ cred = DefaultCred
    /\ environ \in {Unset} \cup CredPaths
    /\ client = NoClient
    /\ handles = 0
    /\ output0 = NoImage
    /\ older = 0
    /\ text_output = <<>>
    /\ output_dict = {}
    /\ response = NoResponse
    /\ scores = <<>>
    /\ i = 0
    /\ exc = NoExc
    /\ wrote = {}
    /\ calls = 0
    /\ env_written = FALSE

(* InferGoogleVisionOcrParam.set_values, called by the host between runs. *)
SetValues ==
    /\ pc = "idle"
    /\ \E p \in {DefaultCred} \cup CredPaths : p # cred /\ cred' = p
    /\ UNCHANGED <<pc, runs, active, environ, client, handles, output0, older,
                   text_output, output_dict, response, scores, i, exc, wrote,
                   calls, env_written>>

(* `raise`: run() ends with the exception; outputs stay as they are. *)
Raise(type, line, text) ==
    /\ pc' = "raised"
    /\ exc' = [type |-> type, line |-> line, text |-> text]

(* run(), line 61: begin_task_run(). *)
BeginTaskRun(maxRuns) ==
    /\ pc = "idle"
    /\ runs < maxRuns
    /\ runs' = runs + 1
    /\ active' = TRUE
    /\ pc' = "forward"
    /\ UNCHANGED <<cred, environ, client, handles, output0, older, text_output,
                   output_dict, response, scores, i, exc, wrote, calls,
                   env_written>>

(* Lines 64-70: get the input and outputs, forward_input_image(0, 0). *)
ForwardInputImage ==
    /\ pc = "forward"
    /\ output0' = SrcImage
    /\ wrote' = wrote \cup {0}
    /\ pc' = "client"
    /\ UNCHANGED <<runs, active, cred, environ, client, handles, older,
                   text_output, output_dict, response, scores, i, exc, calls,
                   env_written>>

(* Mutant: the credential path exported on every invocation. *)
SetCredentials_Always ==
    /\ pc = "client"
    /\ cred # ""
    /\ environ' = cred
    /\ env_written' = TRUE
    /\ pc' = IF client = NoClient THEN "construct" ELSE "encode"
    /\ UNCHANGED <<runs, active, cred, client, handles, output0, older,
                   text_output, output_dict, response, scores, i, exc, wrote,
                   calls>>

(* Lines 75-77: no client yet and a credential path: export it. *)
SetCredentials ==
    /\ pc = "client"
    /\ client = NoClient
    /\ cred # ""
    /\ environ' = cred
    /\ env_written' = TRUE
    /\ pc' = "construct"
    /\ UNCHANGED <<runs, active, cred, client, handles, output0, older,
                   text_output, output_dict, response, scores, i, exc, wrote,
                   calls>>

(* Lines 75-76: no client yet and an empty credential path. *)
SkipCredentials ==
    /\ pc = "client"
    /\ client = NoClient
    /\ cred = ""
    /\ pc' = "construct"
    /\ UNCHANGED <<runs, active, cred, environ, client, handles, output0, older,
                   text_output, output_dict, response, scores, i, exc, wrote,
                   calls, env_written>>

(* Mutant: a client is constructed on every invocation. *)
ReuseClient_Rebuild ==
    /\ pc = "client"
    /\ client # NoClient
    /\ handles' = handles + 1
    /\ client' = handles + 1
    /\ pc' = "encode"
    /\ UNCHANGED <<runs, active, cred, environ, output0, older, text_output,
                   output_dict, response, scores, i, exc, wrote, calls,
                   env_written>>

(* Line 75, condition false: the client of an earlier invocation is kept. *)
ReuseClient ==
    /\ pc = "client"
    /\ client # NoClient
    /\ pc' = "encode"
    /\ UNCHANGED <<runs, active, cred, environ, client, handles, output0, older,
                   text_output, output_dict, response, scores, i, exc, wrote,
                   calls, env_written>>

(* Line 78: vision.ImageAnnotatorClient() returns a new handle or raises. *)
ConstructClient ==
    /\ pc = "construct"
    /\ \/ /\ handles' = handles + 1
          /\ client' = handles + 1
          /\ pc' = "encode"
          /\ UNCHANGED exc
       \/ /\ Raise("DefaultCredentialsError", 78, "")
          /\ UNCHANGED <<client, handles>>
    /\ UNCHANGED <<runs, active, cred, environ, output0, older, text_output,
                   output_dict, response, scores, i, wrote, calls, env_written>>

(* Lines 81-83: reverse the channels and encode the image as JPEG; imencode *)
(* raises on an image it cannot encode. *)
EncodeImage ==
    /\ pc = "encode"
    /\ \/ pc' = "infer" /\ UNCHANGED exc
       \/ Raise("cv2.error", 82, "")
    /\ UNCHANGED <<runs, active, cred, environ, client, handles, output0, older,
                   text_output, output_dict, response, scores, i, wrote, calls,
                   env_written>>

(* Mutant: a response that reports an error is requested a second time. *)
TextDetection_Retry(D) ==
    /\ pc = "infer"
    /\ \/ /\ \E r \in D :
                /\ response' = r
                /\ calls' = IF r.error # "" THEN calls + 2 ELSE calls + 1
          /\ pc' = "check"
          /\ UNCHANGED exc
       \/ /\ Raise("GoogleAPICallError", 92, "")
          /\ calls' = calls + 1
          /\ UNCHANGED response
    /\ UNCHANGED <<runs, active, cred, environ, client, handles, output0, older,
                   text_output, output_dict, scores, i, wrote, env_written>>

(* Lines 86-92: call text_detection once with the confidence option; the   *)
(* service answers with a response of D or the call raises. *)
TextDetection(D) ==
    /\ pc = "infer"
    /\ calls' = calls + 1
    /\ \/ /\ \E r \in D : response' = r
          /\ pc' = "check"
          /\ UNCHANGED exc
       \/ /\ Raise("GoogleAPICallError", 92, "")
          /\ UNCHANGED response
    /\ UNCHANGED <<runs, active, cred, environ, client, handles, output0, older,
                   text_output, output_dict, scores, i, wrote, env_written>>

(* Lines 94-98: a service-reported error message ends the run. *)
CheckError ==
    /\ pc = "check"
    /\ IF response.error # ""
       THEN Raise("Exception", 95, FormatError(response.error))
       ELSE pc' = "dict" /\ UNCHANGED exc
    /\ UNCHANGED <<runs, active, cred, environ, client, handles, output0, older,
                   text_output, output_dict, response, scores, i, wrote, calls,
                   env_written>>

(* Mutant: the aggregate is set only while the mapping is still empty. *)
SetOutputDict_KeepFirst ==
    /\ pc = "dict"
    /\ IF Len(response.text_annotations) = 0
       THEN /\ Raise("IndexError", 101, "")
            /\ UNCHANGED <<output_dict, wrote>>
       ELSE /\ output_dict' =
                  IF output_dict = {}
                  THEN {<<DetectedText, response.text_annotations[1].description>>}
                  ELSE output_dict
            /\ wrote' = wrote \cup {2}
            /\ pc' = "scores"
            /\ UNCHANGED exc
    /\ UNCHANGED <<runs, active, cred, environ, client, handles, output0, older,
                   text_output, response, scores, i, calls, env_written>>

(* Mutant: an empty annotation list gives an empty aggregate and no failure. *)
SetOutputDict_Tolerant ==
    /\ pc = "dict"
    /\ output_dict' =
          IF Len(response.text_annotations) = 0
          THEN {<<DetectedText, "">>}
          ELSE {<<DetectedText, response.text_annotations[1].description>>}
    /\ wrote' = wrote \cup {2}
    /\ pc' = "scores"
    /\ UNCHANGED <<runs, active, cred, environ, client, handles, output0, older,
                   text_output, response, scores, i, exc, calls, env_written>>

(* Line 101: output_dict.data from the first annotation. *)
SetOutputDict ==
    /\ pc = "dict"
    /\ IF Len(response.text_annotations) = 0
       THEN /\ Raise("IndexError", 101, "")
            /\ UNCHANGED <<output_dict, wrote>>
       ELSE /\ output_dict' = {<<DetectedText, response.text_annotations[1].description>>}
            /\ wrote' = wrote \cup {2}
            /\ pc' = "scores"
            /\ UNCHANGED exc
    /\ UNCHANGED <<runs, active, cred, environ, client, handles, output0, older,
                   text_output, response, scores, i, calls, env_written>>

(* Lines 104-109: the word confidences of the first page, flattened. *)
GetScores ==
    /\ pc = "scores"
    /\ IF Len(response.pages) = 0
       THEN /\ Raise("IndexError", 106, "")
            /\ UNCHANGED scores
       ELSE /\ scores' = FlattenScores(response.pages[1])
            /\ pc' = "loop"
            /\ UNCHANGED exc
    /\ UNCHANGED <<runs, active, cred, environ, client, handles, output0, older,
                   text_output, output_dict, response, i, wrote, calls,
                   env_written>>

(* Lines 113-141: one iteration of the loop over texts[1:]. *)
AddTextField ==
    /\ pc = "loop"
    /\ i < Len(Texts1(response.text_annotations))
    /\ LET text == Texts1(response.text_annotations)[i + 1]
       IN IF i >= Len(scores)
          THEN /\ Raise("IndexError", 115, "")
               /\ UNCHANGED <<text_output, wrote, i>>
          ELSE IF Len(text.vertices) = 0
          THEN /\ Raise("ValueError", 125, "")
               /\ UNCHANGED <<text_output, wrote, i>>
          ELSE /\ text_output' =
                     Append(text_output,
                            TextField(i, text.description, scores[i + 1],
                                      BoundingBox(text.vertices)))
               /\ wrote' = wrote \cup {1}
               /\ i' = i + 1
               /\ UNCHANGED <<pc, exc>>
    /\ UNCHANGED <<runs, active, cred, environ, client, handles, output0, older,
                   output_dict, response, scores, calls, env_written>>

(* Lines 144-147: the loop is over; emit_step_progress(), end_task_run(). *)
EndTaskRun ==
    /\ pc = "loop"
    /\ i >= Len(Texts1(response.text_annotations))
    /\ active' = FALSE
    /\ pc' = "done"
    /\ UNCHANGED <<runs, cred, environ, client, handles, output0, older,
                   text_output, output_dict, response, scores, i, exc, wrote,
                   calls, env_written>>

(* run() returns (line 147) or the exception leaves it: control is back with *)
(* the host, the locals of the call are gone, what was added to slot 1 stays. *)
Return ==
    /\ pc \in {"done", "raised"}
    /\ pc' = "idle"
    /\ older' = older + Len(text_output)
    /\ text_output' = <<>>
    /\ response' = NoResponse
    /\ scores' = <<>>
    /\ i' = 0
    /\ exc' = NoExc
    /\ wrote' = {}
    /\ calls' = 0
    /\ env_written' = FALSE
    /\ UNCHANGED <<runs, active, cred, environ, client, handles, output0,
                   output_dict>>

Next ==
    \/ SetValues
    \/ BeginTaskRun(MaxRuns)
    \/ ForwardInputImage
    \/ SetCredentials
    \/ SkipCredentials
    \/ ReuseClient
    \/ ConstructClient
    \/ EncodeImage
    \/ TextDetection(Responses)
    \/ CheckError
    \/ SetOutputDict
    \/ GetScores
    \/ AddTextField
    \/ EndTaskRun
    \/ Return

Spec == Init /\ [][Next]_vars

(* Invocations against the score-pairing responses. *)
NextScores ==
    \/ SetValues
    \/ BeginTaskRun(MaxRuns)
    \/ ForwardInputImage
    \/ SetCredentials
    \/ SkipCredentials
    \/ ReuseClient
    \/ ConstructClient
    \/ EncodeImage
    \/ TextDetection(ScoreResponses)
    \/ CheckError
    \/ SetOutputDict
    \/ GetScores
    \/ AddTextField
    \/ EndTaskRun
    \/ Return

SpecScores == Init /\ [][NextScores]_vars

(* Invocations against the box responses. *)
NextBox ==
    \/ SetValues
    \/ BeginTaskRun(MaxRuns)
    \/ ForwardInputImage
    \/ SetCredentials
    \/ SkipCredentials
    \/ ReuseClient
    \/ ConstructClient
    \/ EncodeImage
    \/ TextDetection(BoxResponses)
    \/ CheckError
    \/ SetOutputDict
    \/ GetScores
    \/ AddTextField
    \/ EndTaskRun
    \/ Return

SpecBox == Init /\ [][NextBox]_vars

----------------------------------------------------------------------------
(* Vocabulary of the properties, stated without the operators of run().    *)

HasResponse == response # NoResponse
Ended == pc \in {"done", "raised"}

(* N: the annotations after the aggregate one. *)
Individuals == Len(response.text_annotations) - 1

(* The words of a page as <<block, paragraph, word>> positions. *)
Positions(page) ==
    UNION {UNION {{<<b, p, w>> : w \in 1..Len(page.blocks[b].paragraphs[p].words)} :
                  p \in 1..Len(page.blocks[b].paragraphs)} :
           b \in 1..Len(page.blocks)}

Before(x, y) ==
    \/ x[1] < y[1]
    \/ x[1] = y[1] /\ x[2] < y[2]
    \/ x[1] = y[1] /\ x[2] = y[2] /\ x[3] < y[3]

NumWords(page) == Cardinality(Positions(page))

(* The confidence of the word that k words precede in traversal order. *)
TraversalScore(page, k) ==
    LET x == CHOOSE y \in Positions(page) :
                 Cardinality({z \in Positions(page) : Before(z, y)}) = k
    IN page.blocks[x[1]].paragraphs[x[2]].words[x[3]].confidence

Contains(s, m) ==
    \E k \in 1..(Len(s) - Len(m) + 1) : SubSeq(s, k, k + Len(m) - 1) = m

(* An error-free response with an aggregate annotation and a first page. *)
WellFormed ==
    /\ HasResponse
    /\ response.error = ""
    /\ Len(response.text_annotations) >= 1
    /\ Len(response.pages) >= 1

PolygonsPresent ==
    \A k \in 2..Len(response.text_annotations) :
        Len(response.text_annotations[k].vertices) >= 1

(* Record k+1 has id k and the description of annotation k+1 (counted from 0). *)
RecordsInOrder ==
    \A k \in 1..Len(text_output) :
        /\ text_output[k].id = k - 1
        /\ text_output[k].text = response.text_annotations[k + 1].description

(* Record k+1 carries the score that k words precede on the first page. *)
RecordsPaired ==
    \A k \in 1..Len(text_output) :
        /\ text_output[k].id = k - 1
        /\ text_output[k].confidence = TraversalScore(response.pages[1], k - 1)

----------------------------------------------------------------------------
(* C1, as stated: for every error-free response with the aggregate          *)
(* annotation, N individual ones and at least N flattened scores, run()     *)
(* completes having added exactly N records, record k with id k and the     *)
(* description of annotation k+1.  Refuted by an individual annotation with *)
(* no polygon vertex: min() of line 125 raises.                             *)
C1_AsStated ==
    (Ended /\ WellFormed /\ NumWords(response.pages[1]) >= Individuals)
        => /\ pc = "done"
           /\ Len(text_output) = Individuals
           /\ RecordsInOrder

(* C1, amended: the same for the responses whose individual annotations     *)
(* each have at least one polygon vertex: run() completes, exactly N        *)
(* records are added in annotation order, ids 0..N-1, texts the             *)
(* descriptions of annotations 1..N, the aggregate never a record.          *)
C1_RecordsPerAnnotation ==
    (Ended /\ WellFormed /\ PolygonsPresent
           /\ NumWords(response.pages[1]) >= Individuals)
        => /\ pc = "done"
           /\ Len(text_output) = Individuals
           /\ RecordsInOrder

(* Two records with different texts added on top of older records. *)
C1_Witness ==
    /\ pc = "done"
    /\ Len(text_output) = 2
    /\ text_output[1].text # text_output[2].text
    /\ text_output[1].text # response.text_annotations[1].description
    /\ older > 0

(* C2: a response with a non-empty error message makes run() raise an       *)
(* exception whose text contains the message; the invocation adds no record *)
(* to slot 1 and does not assign the aggregate of slot 2, whatever          *)
(* annotations the response holds.                                          *)
C2_ErrorFails ==
    (HasResponse /\ response.error # "")
        => /\ pc \in {"check", "raised"}
           /\ text_output = <<>>
           /\ 1 \notin wrote
           /\ 2 \notin wrote
           /\ pc = "raised" => /\ exc.type = "Exception"
                               /\ Contains(exc.text, response.error)

(* An error response that also carries annotations and scores has raised,   *)
(* with the aggregate of an earlier invocation still in slot 2.             *)
C2_Witness ==
    /\ pc = "raised"
    /\ HasResponse
    /\ response.error = "quota"
    /\ Len(response.text_annotations) = 3
    /\ Len(response.pages) = 1
    /\ output_dict # {}

(* C3, as stated: when run() aborts on a remote service error, none of the  *)
(* three output slots has been written by the invocation and the service    *)
(* was called exactly once.  Refuted: slot 0 is forwarded at line 70,       *)
(* before the call.                                                         *)
C3_AsStated ==
    (pc = "raised" /\ exc.type = "Exception")
        => /\ wrote = {}
           /\ calls = 1

(* C3, amended: when run() aborts on a remote service error, slots 1 and 2  *)
(* have not been written by the invocation, slot 0 already holds the        *)
(* forwarded image, and the service was called exactly once.                *)
C3_NoRecordsOnError ==
    (pc = "raised" /\ exc.type = "Exception")
        => /\ wrote = {0}
           /\ output0 = SrcImage
           /\ text_output = <<>>
           /\ calls = 1

(* The abort happens in a later invocation, on a reused client. *)
C3_Witness ==
    /\ pc = "raised"
    /\ exc.type = "Exception"
    /\ runs = MaxRuns
    /\ client # NoClient
    /\ ~env_written

(* C4: when run() has completed, slot 2 is exactly the one-key mapping from *)
(* 'Detected text' to the description of the first annotation of this       *)
(* invocation's response, whatever an earlier invocation left there.        *)
C4_AggregateIsFirst ==
    pc = "done" =>
        /\ output_dict = {<<"Detected text", response.text_annotations[1].description>>}
        /\ Cardinality(output_dict) = 1
        /\ 2 \in wrote

(* A later invocation has completed. *)
C4_Witness ==
    /\ pc = "done"
    /\ runs >= 2
    /\ older > 0
    /\ output_dict = {<<"Detected text", "cd">>}

(* C5: when the words of the first page, counted block by block, paragraph  *)
(* by paragraph, word by word, are as many as the individual annotations,   *)
(* the record with id k carries the confidence of the k-th word, and with   *)
(* polygons present every one of the N records is emitted.                  *)
C5_ScoresPaired ==
    (WellFormed /\ NumWords(response.pages[1]) = Individuals)
        => /\ RecordsPaired
           /\ (Ended /\ PolygonsPresent)
                  => (pc = "done" /\ Len(text_output) = Individuals)

(* Two different scores from two blocks of the first of two pages. *)
C5_Witness ==
    /\ pc = "done"
    /\ Len(text_output) = 2
    /\ text_output[1].confidence # text_output[2].confidence
    /\ Len(response.pages) = 2
    /\ Len(response.pages[1].blocks) >= 2
    /\ NumWords(response.pages[1]) = 2

(* C6: the client is None until an invocation constructs it, a handle is    *)
(* constructed at most once, only at line 78, and once set self.client is   *)
(* never replaced by any later step or invocation.                          *)
C6_ClientOnce ==
    [][/\ client # NoClient => client' = client
       /\ client' # client => (pc = "construct" /\ client' = handles')
       /\ handles' # handles => (handles = 0 /\ handles' = 1 /\ client = NoClient)
       /\ runs = 0 => client = NoClient]_vars

(* A later invocation has failed on a remote error with the first handle. *)
C6_Witness ==
    /\ runs = MaxRuns
    /\ pc = "raised"
    /\ exc.type = "Exception"
    /\ client = 1
    /\ handles = 1

(* C7: the box of every emitted record is that of its annotation's polygon: *)
(* no vertex outside, a vertex on each side, width and height not negative; *)
(* the polygon (0,0),(10,0),(10,5),(0,5) gives (0,0,10,5); an annotation    *)
(* with a non-empty polygon is emitted.                                     *)
C7_BoundingBox ==
    /\ \A k \in 1..Len(text_output) :
          LET v == response.text_annotations[k + 1].vertices
              r == text_output[k]
          IN /\ Len(v) >= 1
             /\ r.box_width >= 0
             /\ r.box_height >= 0
             /\ \A n \in 1..Len(v) :
                    /\ r.box_x <= v[n][1] /\ v[n][1] <= r.box_x + r.box_width
                    /\ r.box_y <= v[n][2] /\ v[n][2] <= r.box_y + r.box_height
             /\ \E n \in 1..Len(v) : v[n][1] = r.box_x
             /\ \E n \in 1..Len(v) : v[n][1] = r.box_x + r.box_width
             /\ \E n \in 1..Len(v) : v[n][2] = r.box_y
             /\ \E n \in 1..Len(v) : v[n][2] = r.box_y + r.box_height
             /\ v = <<<<0, 0>>, <<10, 0>>, <<10, 5>>, <<0, 5>>>>
                    => <<r.box_x, r.box_y, r.box_width, r.box_height>> = <<0, 0, 10, 5>>
    /\ (Ended /\ WellFormed /\ PolygonsPresent
              /\ NumWords(response.pages[1]) >= Individuals)
          => Len(text_output) = Individuals

(* The box of a triangle given in no particular order. *)
C7_Witness ==
    /\ Len(text_output) = 1
    /\ response.text_annotations[2].vertices = <<<<5, 5>>, <<10, 0>>, <<0, 5>>>>
    /\ text_output[1].box_x = 0
    /\ text_output[1].box_width = 10

(* C8, as stated: whenever the flattened scores are more or fewer than the  *)
(* N individual annotations, run() completes without raising and emits all  *)
(* N records.  Refuted by fewer scores: scores[i] of line 115 raises.       *)
C8_AsStated ==
    (Ended /\ WellFormed /\ PolygonsPresent
           /\ NumWords(response.pages[1]) # Individuals)
        => /\ pc = "done"
           /\ Len(text_output) = Individuals

(* C8, amended: with polygons present, more scores than annotations go      *)
(* unnoticed: run() completes, emits all N records and pairs each with the  *)
(* score at its position; fewer scores, M < N, make run() raise IndexError  *)
(* at line 115 after emitting the first M records, so paired.               *)
C8_MismatchOutcome ==
    (Ended /\ WellFormed /\ PolygonsPresent
           /\ NumWords(response.pages[1]) # Individuals)
        => /\ RecordsPaired
           /\ IF NumWords(response.pages[1]) > Individuals
              THEN pc = "done" /\ Len(text_output) = Individuals
              ELSE /\ pc = "raised"
                   /\ exc.type = "IndexError"
                   /\ exc.line = 115
                   /\ Len(text_output) = NumWords(response.pages[1])

(* Two records emitted with three scores at hand. *)
C8_Witness ==
    /\ pc = "done"
    /\ WellFormed
    /\ Individuals = 2
    /\ NumWords(response.pages[1]) = 3
    /\ Len(text_output) = 2
    /\ text_output[1].confidence # text_output[2].confidence

(* C9: the environment variable is assigned only at lines 76-77, with no    *)
(* client yet and a non-empty credential path, to that path, and the        *)
(* construction of the same invocation comes after it; an empty path or an  *)
(* existing client leaves the variable as it is.                            *)
C9_CredentialsBeforeClient ==
    [][/\ (environ' # environ \/ (env_written' /\ ~env_written))
            => /\ pc = "client" /\ pc' = "construct"
               /\ client = NoClient /\ client' = NoClient
               /\ cred # ""
               /\ environ' = cred
       /\ (cred = "" \/ client # NoClient) => environ' = environ
       /\ client' # client
            => /\ pc = "construct"
               /\ cred # "" => (env_written /\ environ = cred)]_vars

(* A path changed after the construction is not exported by the next run. *)
C9_Witness ==
    /\ runs = MaxRuns
    /\ pc = "infer"
    /\ client # NoClient
    /\ cred # ""
    /\ environ # Unset
    /\ environ # cred
    /\ ~env_written

(* C10: an error-free response with no annotation makes run() fail with     *)
(* IndexError at line 101: the image is already forwarded to slot 0, no     *)
(* record is added, the aggregate is not assigned, end_task_run() is not    *)
(* reached; run() never completes on such a response.                       *)
C10_NoAnnotations ==
    (HasResponse /\ response.error = "" /\ Len(response.text_annotations) = 0)
        => /\ pc \in {"check", "dict", "raised"}
           /\ wrote = {0}
           /\ output0 = SrcImage
           /\ text_output = <<>>
           /\ active
           /\ pc = "raised" => (exc.type = "IndexError" /\ exc.line = 101)

(* The failure on an empty annotation list that comes with a scored page. *)
C10_Witness ==
    /\ pc = "raised"
    /\ exc.type = "IndexError"
    /\ exc.line = 101
    /\ Len(response.pages) = 1
    /\ active

====
